---- MODULE Spec2Model ----
(***************************************************************************)
(* The admission webhook of pkg/admission/admission.go: the transport      *)
(* checks, the envelope decode, the validate and mutate admission          *)
(* functions, the failure-response builder and the response write, one     *)
(* step of the handler per action.                                         *)
(*                                                                         *)
(* An optional (Go pointer, nil slice) is a sequence of length 0 or 1.     *)
(* Byte payloads are sequences of tokens; error values are their message   *)
(* strings.                                                                *)
(***************************************************************************)
EXTENDS Naturals, Sequences, FiniteSets, TLC

(* ---------------------------------------------------------------- bounds *)

\* Concurrent handler slots of the HTTP server.
NumHandlers == 2
\* Cap of the validation-triggered counter (no validate request arrives beyond it).
MaxCount == 2
\* Longest error sequence the external validator returns.
MaxErrors == 2
\* Longest fragment sequence the patch helper returns.
MaxFragments == 2

Handlers == 1..NumHandlers

(* ------------------------------------------------------------- constants *)

addFirstAnnotationPatch == "{ \"op\": \"add\", \"path\": \"/metadata/annotations\", \"value\": {\"prometheus-operator-validated\": \"true\"}}"
addAdditionalAnnotationPatch == "{ \"op\": \"add\", \"path\": \"/metadata/annotations/prometheus-operator-validated\", \"value\": \"true\" }"
errUnmarshalAdmission == "Cannot unmarshal admission request"
errUnmarshalRules == "Cannot unmarshal rules from spec"

ruleResource == [Group |-> "monitoring.coreos.com", Version |-> "v1", Resource |-> "prometheusrules"]

StatusBadRequest == 400
StatusUnsupportedMediaType == 415
StatusUnprocessableEntity == 422
StatusInternalServerError == 500
StatusOK == 200

\* The annotation key both patch constants set.
ValidatedKey == "prometheus-operator-validated"

(* ----------------------------------------------------------------- types *)

None == << >>
Some(x) == << x >>

SeqsUpTo(S, n) == UNION { [1..k -> S] : k \in 0..n }

\* metav1.GroupVersionResource values a request may carry.
Resources ==
  { ruleResource,
    [ruleResource EXCEPT !.Group = "example.com"],
    [ruleResource EXCEPT !.Version = "v1beta1"],
    [ruleResource EXCEPT !.Resource = "servicemonitors"] }

\* GroupVersionResource.String(), which %v prints.
GVRString(r) == r.Group \o "/" \o r.Version \o ", Resource=" \o r.Resource

\* An annotation map: the set of its keys, each of the model's entries having
\* the value "true" once the validated key is set; "present" tells an absent
\* map from an empty one.
AnnotationKeys == { "owner", ValidatedKey }
AnnotationMaps ==
  { [present |-> FALSE, keys |-> {}] } \cup
  { [present |-> TRUE, keys |-> K] : K \in SUBSET AnnotationKeys }

\* Request.Object.Raw: bytes json.Unmarshal rejects, or a JSON object with a
\* metadata.annotations map.
RawObjects ==
  { [json |-> FALSE, annotations |-> [present |-> FALSE, keys |-> {}]] } \cup
  { [json |-> TRUE, annotations |-> a] : a \in AnnotationMaps }

UIDs == { "uid-1", "uid-2" }
APIVersions == { "admission.k8s.io/v1", "admission.k8s.io/v1beta1" }

AdmissionRequests ==
  [UID : UIDs, Resource : Resources, Object : RawObjects]

\* v1.AdmissionReview{}: the zero value.
ZeroReview == [APIVersion |-> "", Kind |-> "", Request |-> None, Response |-> None]

\* The envelopes a body can hold.
Reviews ==
  { [APIVersion |-> v, Kind |-> "AdmissionReview", Request |-> rq, Response |-> None] :
      v \in APIVersions, rq \in { None } \cup { Some(r) : r \in AdmissionRequests } }

\* v1.AdmissionResponse{}: the zero value.
ZeroResponse ==
  [UID |-> "", Allowed |-> FALSE, Result |-> None, Patch |-> None, PatchType |-> None]

(* ------------------------------------------------ external collaborators *)

\* Error messages the external validator (promoperator.ValidateRule) returns.
RuleErrors == { "group g: rule 0: bad expression", "group g: rule 1: bad duration" }
\* Fragments the patch helper returns: complete JSON-Patch operations as text.
HelperFragments ==
  { "{\"op\": \"replace\", \"path\": \"/spec/groups/0/rules/0/labels/severity\", \"value\": \"1\"}",
    "{\"op\": \"replace\", \"path\": \"/spec/groups/0/rules/0/annotations/value\", \"value\": \"2\"}" }

errDecode == "couldn't get version/kind; json parse error"
errJSON == "unexpected end of JSON input"
errTyped == "json: cannot unmarshal number into Go struct field of type string"
errHelper == "cannot unmarshal spec"
errMarshal == "json: error calling MarshalJSON"
errWrite == "write: broken pipe"

\* A request body: no bytes, bytes the deserializer rejects leaving the
\* envelope untouched ("garbage"), bytes it rejects after it has filled the
\* envelope ("partial"), or a well-formed document ("json").
Bodies ==
  { [bytes |-> "", holds |-> ZeroReview], [bytes |-> "garbage", holds |-> ZeroReview] } \cup
  { [bytes |-> b, holds |-> rv] : b \in { "partial", "json" }, rv \in Reviews }

\* Content-Type headers: the accepted one, one with a parameter, another type.
ContentTypes == { "application/json", "application/json; charset=utf-8", "text/plain" }
Routes == { "validate", "mutate" }

HttpRequests == [route : Routes, body : Bodies, contentType : ContentTypes]

\* deserializer.Decode(body, nil, &into): the error and what it leaves in into.
Decode(body) ==
  [ err  |-> IF body.bytes = "json" THEN None ELSE Some(errDecode),
    into |-> body.holds ]

(* ------------------------------------------------------- pure functions *)

RECURSIVE AppendCauses(_, _)
\* The loop of toAdmissionResponseFailure: one StatusCause per error, appended in order.
AppendCauses(causes, errs) ==
  IF errs = << >> THEN causes
  ELSE AppendCauses(Append(causes, [Message |-> Head(errs)]), Tail(errs))

\* A builder that drops the causes.
toAdmissionResponseFailure_NoCauses(message, errs) ==
  [ZeroResponse EXCEPT !.Result =
     Some([ Status |-> "Failure", Reason |-> "Invalid", Code |-> StatusUnprocessableEntity,
            Message |-> message,
            Details |-> [Name |-> "", Causes |-> << >>, CausesNil |-> FALSE] ])]

\* A builder that prepends each cause instead of appending it.
toAdmissionResponseFailure_Reversed(message, errs) ==
  [ZeroResponse EXCEPT !.Result =
     Some([ Status |-> "Failure", Reason |-> "Invalid", Code |-> StatusUnprocessableEntity,
            Message |-> message,
            Details |-> [ Name |-> IF errs = << >> THEN "" ELSE "prometheusrules",
                          Causes |-> [i \in 1..Len(errs) |->
                                        [Message |-> errs[Len(errs) + 1 - i]]],
                          CausesNil |-> FALSE ] ])]

\* A builder that leaves the causes nil until the first error is appended.
toAdmissionResponseFailure_NilCauses(message, errs) ==
  [ZeroResponse EXCEPT !.Result =
     Some([ Status |-> "Failure", Reason |-> "Invalid", Code |-> StatusUnprocessableEntity,
            Message |-> message,
            Details |-> [ Name |-> IF errs = << >> THEN "" ELSE "prometheusrules",
                          Causes |-> AppendCauses(<< >>, errs),
                          CausesNil |-> (errs = << >>) ] ])]

\* Lines 82-99.
toAdmissionResponseFailure(message, errs) ==
  [ZeroResponse EXCEPT !.Result =
     Some([ Status |-> "Failure", Reason |-> "Invalid", Code |-> StatusUnprocessableEntity,
            Message |-> message,
            Details |-> [ Name |-> IF errs = << >> THEN "" ELSE "prometheusrules",
                          Causes |-> AppendCauses(<< >>, errs),
                          CausesNil |-> FALSE ] ])]

\* A comparison that looks at the resource name only.
IsRuleResource_NameOnly(r) == r.Resource = ruleResource.Resource

\* A check that lets every resource pass.
IsRuleResource_Always(r) == TRUE

\* ar.Request.Resource != ruleResource, negated: struct equality on all three fields.
IsRuleResource(r) ==
  /\ r.Group = ruleResource.Group
  /\ r.Version = ruleResource.Version
  /\ r.Resource = ruleResource.Resource

\* fmt.Errorf("expected resource to be %v, but received %v", ruleResource, r).Error()
errResourceKind(r) ==
  "expected resource to be " \o GVRString(ruleResource) \o ", but received " \o GVRString(r)

\* A success response that also carries a patch type.
allowedResponse_WithPatchType == [ZeroResponse EXCEPT !.Allowed = TRUE, !.PatchType = Some("JSONPatch")]

\* &v1.AdmissionResponse{Allowed: true}
allowedResponse == [ZeroResponse EXCEPT !.Allowed = TRUE]

\* len(rule.Annotations)
AnnotationCount(annotations) == Cardinality(annotations.keys)

\* A branch that always creates the map.
annotationPatch_AlwaysFirst(annotations) == addFirstAnnotationPatch

\* The fragment lines 175-179 append.
annotationPatch(annotations) ==
  IF AnnotationCount(annotations) = 0 THEN addFirstAnnotationPatch
  ELSE addAdditionalAnnotationPatch

RECURSIVE Join(_, _)
\* strings.Join(elems, sep), as tokens.
Join(elems, sep) ==
  IF Len(elems) = 0 THEN << >>
  ELSE IF Len(elems) = 1 THEN << elems[1] >>
  ELSE << elems[1], sep >> \o Join(Tail(elems), sep)

\* A join that puts the annotation fragment first.
patchPayload_AnnotationFirst(frags, annotations) ==
  << "[" >> \o Join(<< annotationPatch(annotations) >> \o frags, ",") \o << "]" >>

\* []byte(fmt.Sprintf("[%s]", strings.Join(append(patches, fragment), ",")))
patchPayload(frags, annotations) ==
  << "[" >> \o Join(Append(frags, annotationPatch(annotations)), ",") \o << "]" >>

\* json.Marshal(responseAdmissionReview): the JSON members, nil pointers omitted.
Marshal(review) ==
  [ apiVersion |-> review.APIVersion,
    kind       |-> review.Kind,
    response   |-> IF review.Response = None THEN None
                   ELSE Some([ uid       |-> review.Response[1].UID,
                               allowed   |-> review.Response[1].Allowed,
                               status    |-> review.Response[1].Result,
                               patch     |-> review.Response[1].Patch,
                               patchType |-> review.Response[1].PatchType ]) ]

(* ---------------------------------------------------- http.ResponseWriter *)

\* A ResponseWriter nothing was written to: no status line, no body.
NewWriter == [status |-> 0, body |-> << >>]

\* w.WriteHeader(code): the first call decides the status, later ones are ignored.
WriteHeader(wr, code) == IF wr.status = 0 THEN [wr EXCEPT !.status = code] ELSE wr

\* http.Error(w, msg, code): WriteHeader(code), then the message as the body.
HttpError(wr, msg, code) ==
  [WriteHeader(wr, code) EXCEPT !.body = Append(@, [text |-> msg, json |-> None])]

\* w.Write(bytes): an implicit WriteHeader(200), then the bytes, unless the write fails.
Write(wr, bytes, fails) ==
  IF fails \/ bytes = None THEN WriteHeader(wr, StatusOK)
  ELSE [WriteHeader(wr, StatusOK) EXCEPT !.body = Append(@, [text |-> "", json |-> bytes])]

(* ----------------------------------------------------------------- state *)

VARIABLES
  registered,                  \* RegisterMetrics has set both counter fields
  validationTriggeredCounter,  \* value of the validation-triggered counter
  validationErrorsCounter,     \* value of the validation-errors counter
  pc,                          \* per handler: the statement it is about to execute
  r,                           \* per handler: the *http.Request
  w,                           \* per handler: the http.ResponseWriter
  requestedAdmissionReview,    \* per handler: local of serveAdmission
  responseAdmissionReview,     \* per handler: local of serveAdmission
  respBytes,                   \* per handler: local of serveAdmission
  rule,                        \* per handler: the annotations of the unmarshalled object
  errors,                      \* per handler: local of validatePrometheusRules
  patches,                     \* per handler: local of mutatePrometheusRules
  steps,                       \* per handler: the statements of the admission function run so far
  fault,                       \* per handler: the runtime panic that ended it, if any
  object,                      \* the stored object the API server resubmits
  applied,                     \* patches the API server has applied to it
  call                         \* a direct call of toAdmissionResponseFailure: arguments, result

counters == << registered, validationTriggeredCounter, validationErrorsCounter >>
locals == << requestedAdmissionReview, responseAdmissionReview, respBytes, rule,
             errors, patches >>
stored == << object, applied, call >>
vars == << registered, validationTriggeredCounter, validationErrorsCounter, pc, r, w,
           requestedAdmissionReview, responseAdmissionReview, respBytes, rule,
           errors, patches, steps, fault, object, applied, call >>

NoRequest ==
  [route |-> "validate", body |-> [bytes |-> "", holds |-> ZeroReview], contentType |-> ""]
NoAnnotations == [present |-> FALSE, keys |-> {}]
\* No direct call of the builder.
NoCall == [message |-> "", errs |-> << >>, result |-> None]

\* New(logger): both counter fields nil; no request in flight.
Init ==
  /\ registered = FALSE
  /\ validationTriggeredCounter = 0
  /\ validationErrorsCounter = 0
  /\ pc = [h \in Handlers |-> "idle"]
  /\ r = [h \in Handlers |-> NoRequest]
  /\ w = [h \in Handlers |-> NewWriter]
  /\ requestedAdmissionReview = [h \in Handlers |-> ZeroReview]
  /\ responseAdmissionReview = [h \in Handlers |-> ZeroReview]
  /\ respBytes = [h \in Handlers |-> None]
  /\ rule = [h \in Handlers |-> NoAnnotations]
  /\ errors = [h \in Handlers |-> << >>]
  /\ patches = [h \in Handlers |-> << >>]
  /\ steps = [h \in Handlers |-> << >>]
  /\ fault = [h \in Handlers |-> "none"]
  /\ object = NoAnnotations
  /\ applied = 0
  /\ call = NoCall

(* ------------------------------------------------------ shared fragments *)

Goto(h, label) == pc' = [pc EXCEPT ![h] = label]
Did(h, step) == steps' = [steps EXCEPT ![h] = Append(@, step)]

\* A runtime panic in the handler goroutine: net/http recovers it and drops the
\* connection; nothing more is written.
Panic(h, why) ==
  /\ Goto(h, "panicked")
  /\ fault' = [fault EXCEPT ![h] = why]

\* return <response> from the admission function, assigned at line 131.
Return(h, response) ==
  /\ responseAdmissionReview' = [responseAdmissionReview EXCEPT ![h].Response = Some(response)]
  /\ Goto(h, "correlate")

\* ar.Request as the admission function sees it.
Request(h) == requestedAdmissionReview[h].Request

\* An increment that is lost.
validationTriggeredCounterInc_Skipped == UNCHANGED validationTriggeredCounter

\* a.validationTriggeredCounter.Inc(): atomic, adds one.
validationTriggeredCounterInc == validationTriggeredCounter' = validationTriggeredCounter + 1

\* An increment that is lost.
validationErrorsCounterInc_Skipped == UNCHANGED validationErrorsCounter

\* An increment that counts twice.
validationErrorsCounterInc_Twice == validationErrorsCounter' = validationErrorsCounter + 2

\* a.validationErrorsCounter.Inc(): atomic, adds one.
validationErrorsCounterInc == validationErrorsCounter' = validationErrorsCounter + 1

\* A mutate function that counts its rejections as validation errors.
mutateCounters_Counting ==
  /\ validationErrorsCounter' = validationErrorsCounter + 1
  /\ UNCHANGED validationTriggeredCounter

\* mutatePrometheusRules has no statement that touches a counter.
mutateCounters == UNCHANGED << validationTriggeredCounter, validationErrorsCounter >>

\* A rejection that falls through to the decode.
afterReject_FallThrough == "decode"

\* The return after http.Error at lines 112 and 119.
afterReject == "done"

\* Bytes returned next to the error.
marshalResult_BytesOnError(review, failed) == Some(Marshal(review))

\* respBytes, err := json.Marshal(review): nil bytes next to an error.
marshalResult(review, failed) == IF failed THEN None ELSE Some(Marshal(review))

(* ---------------------------------------------------------------- actions *)

\* RegisterMetrics: both counter fields set.
RegisterMetrics ==
  /\ ~registered
  /\ registered' = TRUE
  /\ UNCHANGED << validationTriggeredCounter, validationErrorsCounter, pc, r, w, locals,
                  steps, fault, stored >>

\* The server calls servePrometheusRulesValidate or servePrometheusRulesMutate
\* with a fresh writer; serveAdmission starts.
Arrive(h, req) ==
  /\ pc[h] = "idle"
  /\ req.route = "validate" => validationTriggeredCounter < MaxCount
  /\ r' = [r EXCEPT ![h] = req]
  /\ Goto(h, "body")
  /\ UNCHANGED << counters, w, locals, steps, fault, stored >>

\* Lines 102-113: read the body; an empty one is answered 400.
serveAdmissionBody(h) ==
  /\ pc[h] = "body"
  /\ IF r[h].body.bytes = ""
     THEN /\ w' = [w EXCEPT ![h] = HttpError(@, "request has no body", StatusBadRequest)]
          /\ Goto(h, afterReject)
     ELSE /\ Goto(h, "contentType")
          /\ UNCHANGED w
  /\ UNCHANGED << counters, r, locals, steps, fault, stored >>

\* Lines 115-120: any content type but application/json is answered 415 (the
\* message is the source's, without its backquotes).
serveAdmissionContentType(h) ==
  /\ pc[h] = "contentType"
  /\ IF r[h].contentType # "application/json"
     THEN /\ w' = [w EXCEPT ![h] = HttpError(@, "invalid Content-Type, want application/json",
                                              StatusUnsupportedMediaType)]
          /\ Goto(h, afterReject)
     ELSE /\ Goto(h, "decode")
          /\ UNCHANGED w
  /\ UNCHANGED << counters, r, locals, steps, fault, stored >>

\* Lines 124-130: decode the envelope; a failure becomes the response.
serveAdmissionDecode(h) ==
  /\ pc[h] = "decode"
  /\ LET d == Decode(r[h].body) IN
       /\ requestedAdmissionReview' = [requestedAdmissionReview EXCEPT ![h] = d.into]
       /\ IF d.err # None
          THEN /\ responseAdmissionReview' =
                    [responseAdmissionReview EXCEPT ![h].Response =
                       Some(toAdmissionResponseFailure("Unable to deserialize request", d.err))]
               /\ Goto(h, "correlate")
          ELSE /\ Goto(h, r[h].route)
               /\ UNCHANGED responseAdmissionReview
  /\ UNCHANGED << counters, r, w, respBytes, rule, errors, patches, steps, fault, stored >>

\* A failure return of the validate function: validationErrorsCounter.Inc(), which
\* panics on a nil counter, then the return.
Fail(h, response) ==
  IF registered
  THEN /\ validationErrorsCounterInc
       /\ Return(h, response)
       /\ UNCHANGED fault
  ELSE /\ Panic(h, "nil counter")
       /\ UNCHANGED << validationErrorsCounter, responseAdmissionReview >>

\* Line 187: validationTriggeredCounter.Inc(), before anything else.
validatePrometheusRulesTriggered(h) ==
  /\ pc[h] = "validate"
  /\ IF registered
     THEN /\ validationTriggeredCounterInc
          /\ Did(h, "triggered")
          /\ Goto(h, "v_kind")
          /\ UNCHANGED fault
     ELSE /\ Panic(h, "nil counter")
          /\ UNCHANGED << validationTriggeredCounter, steps >>
  /\ UNCHANGED << registered, validationErrorsCounter, r, w, locals, stored >>

\* Lines 190-195: the resource-kind check; ar.Request is dereferenced here.
validatePrometheusRulesKind(h) ==
  /\ pc[h] = "v_kind"
  /\ IF Request(h) = None
     THEN /\ Panic(h, "nil request")
          /\ UNCHANGED << validationErrorsCounter, responseAdmissionReview, steps >>
     ELSE /\ Did(h, "kind")
          /\ IF IsRuleResource(Request(h)[1].Resource)
             THEN /\ Goto(h, "v_unmarshal")
                  /\ UNCHANGED << validationErrorsCounter, responseAdmissionReview, fault >>
             ELSE Fail(h, toAdmissionResponseFailure("Unexpected resource kind",
                                << errResourceKind(Request(h)[1].Resource) >>))
  /\ UNCHANGED << registered, validationTriggeredCounter, r, w, requestedAdmissionReview,
                  respBytes, rule, errors, patches, stored >>

\* Lines 197-202: json.Unmarshal into the typed PrometheusRule, which rejects
\* bytes that are no JSON and may reject a JSON object of the wrong shape.
validatePrometheusRulesUnmarshal(h) ==
  /\ pc[h] = "v_unmarshal"
  /\ Did(h, "unmarshal")
  /\ \E typed \in BOOLEAN :
       IF Request(h)[1].Object.json /\ typed
       THEN /\ Goto(h, "v_rules")
            /\ UNCHANGED << validationErrorsCounter, responseAdmissionReview, fault >>
       ELSE Fail(h, toAdmissionResponseFailure(errUnmarshalRules,
                      << IF Request(h)[1].Object.json THEN errTyped ELSE errJSON >>))
  /\ UNCHANGED << registered, validationTriggeredCounter, r, w, requestedAdmissionReview,
                  respBytes, rule, errors, patches, stored >>

\* Lines 204-216: the external validator's errors decide.
validatePrometheusRulesValidate(h) ==
  /\ pc[h] = "v_rules"
  /\ Did(h, "ValidateRule")
  /\ \E errs \in SeqsUpTo(RuleErrors, MaxErrors) :
       /\ errors' = [errors EXCEPT ![h] = errs]
       /\ IF Len(errs) # 0
          THEN Fail(h, toAdmissionResponseFailure("Rules are not valid", errs))
          ELSE /\ Return(h, allowedResponse)
               /\ UNCHANGED << validationErrorsCounter, fault >>
  /\ UNCHANGED << registered, validationTriggeredCounter, r, w, requestedAdmissionReview,
                  respBytes, rule, patches, stored >>

\* Lines 155-159: the resource-kind check of the mutate function.
mutatePrometheusRulesKind(h) ==
  /\ pc[h] = "mutate"
  /\ IF Request(h) = None
     THEN /\ Panic(h, "nil request")
          /\ UNCHANGED << responseAdmissionReview, steps >>
     ELSE /\ Did(h, "kind")
          /\ UNCHANGED fault
          /\ IF IsRuleResource(Request(h)[1].Resource)
             THEN /\ Goto(h, "m_unmarshal")
                  /\ UNCHANGED responseAdmissionReview
             ELSE Return(h, toAdmissionResponseFailure("Unexpected resource kind",
                                << errResourceKind(Request(h)[1].Resource) >>))
  /\ mutateCounters
  /\ UNCHANGED << registered, r, w, requestedAdmissionReview, respBytes, rule, errors,
                  patches, stored >>

\* Lines 161-165: json.Unmarshal into PrometheusRules, which keeps the annotations.
mutatePrometheusRulesUnmarshal(h) ==
  /\ pc[h] = "m_unmarshal"
  /\ Did(h, "unmarshal")
  /\ IF Request(h)[1].Object.json
     THEN /\ rule' = [rule EXCEPT ![h] = Request(h)[1].Object.annotations]
          /\ Goto(h, "m_patches")
          /\ UNCHANGED responseAdmissionReview
     ELSE /\ Return(h, toAdmissionResponseFailure(errUnmarshalAdmission, << errJSON >>))
          /\ UNCHANGED rule
  /\ mutateCounters
  /\ UNCHANGED << registered, r, w, requestedAdmissionReview, respBytes, errors, patches,
                  fault, stored >>

\* Lines 167-171: the patch helper returns its fragments or an error.
mutatePrometheusRulesPatches(h) ==
  /\ pc[h] = "m_patches"
  /\ Did(h, "generatePatches")
  /\ \E failed \in BOOLEAN, frags \in SeqsUpTo(HelperFragments, MaxFragments) :
       /\ failed => frags = << >>
       /\ IF failed
          THEN /\ Return(h, toAdmissionResponseFailure(errUnmarshalRules, << errHelper >>))
               /\ UNCHANGED patches
          ELSE /\ patches' = [patches EXCEPT ![h] = frags]
               /\ Goto(h, "m_annotate")
               /\ UNCHANGED responseAdmissionReview
  /\ mutateCounters
  /\ UNCHANGED << registered, r, w, requestedAdmissionReview, respBytes, rule, errors,
                  fault, stored >>

\* Lines 173-183: append the annotation fragment, join, and allow.
mutatePrometheusRulesAnnotate(h) ==
  /\ pc[h] = "m_annotate"
  /\ Did(h, "annotate")
  /\ Return(h, [ZeroResponse EXCEPT !.Allowed = TRUE,
                                    !.PatchType = Some("JSONPatch"),
                                    !.Patch = patchPayload(patches[h], rule[h])])
  /\ mutateCounters
  /\ UNCHANGED << registered, r, w, requestedAdmissionReview, respBytes, rule, errors,
                  patches, fault, stored >>

\* Lines 134-136 on a request envelope whose Request is set.
correlate(response, requested) ==
  [response EXCEPT !.Response = Some([@[1] EXCEPT !.UID = requested.Request[1].UID]),
                   !.APIVersion = requested.APIVersion,
                   !.Kind = requested.Kind]

\* Lines 134-136: copy UID, APIVersion and Kind; requestedAdmissionReview.Request
\* is dereferenced without a nil check.
serveAdmissionCorrelate(h) ==
  /\ pc[h] = "correlate"
  /\ IF requestedAdmissionReview[h].Request = None
     THEN /\ Panic(h, "nil request")
          /\ UNCHANGED responseAdmissionReview
     ELSE /\ responseAdmissionReview' =
               [responseAdmissionReview EXCEPT ![h] = correlate(@, requestedAdmissionReview[h])]
          /\ Goto(h, "marshal")
          /\ UNCHANGED fault
  /\ UNCHANGED << counters, r, w, requestedAdmissionReview, respBytes, rule, errors,
                  patches, steps, stored >>

\* Lines 138-145: json.Marshal; its error is reported as 500 and the handler goes on.
serveAdmissionMarshal(h) ==
  /\ pc[h] = "marshal"
  /\ \E failed \in BOOLEAN :
       /\ respBytes' = [respBytes EXCEPT ![h] =
                          marshalResult(responseAdmissionReview[h], failed)]
       /\ w' = [w EXCEPT ![h] =
                  IF failed
                  THEN HttpError(@, "could not serialize response: " \o errMarshal,
                                 StatusInternalServerError)
                  ELSE @]
  /\ Goto(h, "write")
  /\ UNCHANGED << counters, r, requestedAdmissionReview, responseAdmissionReview, rule,
                  errors, patches, steps, fault, stored >>

\* Lines 146-149: w.Write(respBytes); its error is reported as 500.
serveAdmissionWrite(h) ==
  /\ pc[h] = "write"
  /\ \E failed \in BOOLEAN :
       w' = [w EXCEPT ![h] =
               IF failed
               THEN HttpError(Write(@, respBytes[h], TRUE),
                              "could not write response: " \o errWrite,
                              StatusInternalServerError)
               ELSE Write(@, respBytes[h], FALSE)]
  /\ Goto(h, "done")
  /\ UNCHANGED << counters, r, locals, steps, fault, stored >>

\* The handler's slot as it was before the request.
Reset(h) ==
  /\ pc' = [pc EXCEPT ![h] = "idle"]
  /\ r' = [r EXCEPT ![h] = NoRequest]
  /\ w' = [w EXCEPT ![h] = NewWriter]
  /\ requestedAdmissionReview' = [requestedAdmissionReview EXCEPT ![h] = ZeroReview]
  /\ responseAdmissionReview' = [responseAdmissionReview EXCEPT ![h] = ZeroReview]
  /\ respBytes' = [respBytes EXCEPT ![h] = None]
  /\ rule' = [rule EXCEPT ![h] = NoAnnotations]
  /\ errors' = [errors EXCEPT ![h] = << >>]
  /\ patches' = [patches EXCEPT ![h] = << >>]
  /\ steps' = [steps EXCEPT ![h] = << >>]
  /\ fault' = [fault EXCEPT ![h] = "none"]

\* The handler has returned or panicked: the server is done with the request and
\* everything the handler owned is dropped.
Discard(h) ==
  /\ pc[h] \in { "done", "panicked" }
  /\ Reset(h)
  /\ UNCHANGED << counters, stored >>

\* One step of a handler that is serving a request.
Step(h) ==
  \/ serveAdmissionBody(h)
  \/ serveAdmissionContentType(h)
  \/ serveAdmissionDecode(h)
  \/ validatePrometheusRulesTriggered(h)
  \/ validatePrometheusRulesKind(h)
  \/ validatePrometheusRulesUnmarshal(h)
  \/ validatePrometheusRulesValidate(h)
  \/ mutatePrometheusRulesKind(h)
  \/ mutatePrometheusRulesUnmarshal(h)
  \/ mutatePrometheusRulesPatches(h)
  \/ mutatePrometheusRulesAnnotate(h)
  \/ serveAdmissionCorrelate(h)
  \/ serveAdmissionMarshal(h)
  \/ serveAdmissionWrite(h)

\* A request of any shape arrives while no other is being served.
Receive(h) ==
  /\ \A g \in Handlers : pc[g] = "idle"
  /\ \E req \in HttpRequests : Arrive(h, req)

Next ==
  \/ RegisterMetrics
  \/ \E h \in Handlers : Receive(h)
  \/ \E h \in Handlers : Step(h)
  \/ \E h \in Handlers : Discard(h)

Spec == Init /\ [][Next]_vars

(* ------------------------------------- the API server applying the patch *)

\* Bound of the resubmission loop: patches applied to the stored object.
MaxApplied == 2

\* The elements of the JSON array the payload of line 182 spells, read back
\* token by token: "[", elements separated by ",", "]".
ArrayElements(payload) ==
  LET n == Len(payload)
      inner == IF n >= 2 THEN SubSeq(payload, 2, n - 1) ELSE << >>
      m == Len(inner)
      punct == { "[", ",", "]" }
      wellFormed ==
        /\ n >= 2 /\ payload[1] = "[" /\ payload[n] = "]"
        /\ \/ m = 0
           \/ /\ m % 2 = 1
              /\ \A i \in 1..m : IF i % 2 = 1 THEN inner[i] \notin punct ELSE inner[i] = ","
  IN [ ok    |-> wellFormed,
       elems |-> IF wellFormed /\ m > 0
                 THEN [i \in 1..((m + 1) \div 2) |-> inner[2 * i - 1]]
                 ELSE << >> ]

\* One JSON-Patch operation on the object's annotations: the two constants of
\* lines 35-36 are "add" operations, which need the parent of their path to exist;
\* the helper's fragments address the spec and leave the annotations alone.
ApplyOperation(target, op) ==
  IF ~target.ok THEN target
  ELSE IF op = addFirstAnnotationPatch
       THEN [ok |-> TRUE, annotations |-> [present |-> TRUE, keys |-> { ValidatedKey }]]
  ELSE IF op = addAdditionalAnnotationPatch
       THEN IF target.annotations.present
            THEN [ok |-> TRUE,
                  annotations |-> [present |-> TRUE,
                                   keys |-> target.annotations.keys \cup { ValidatedKey }]]
            ELSE [target EXCEPT !.ok = FALSE]
  ELSE target

RECURSIVE ApplyOperations(_, _)
\* The operations of a patch, applied in order; the first failure fails the patch.
ApplyOperations(target, ops) ==
  IF ops = << >> THEN target
  ELSE ApplyOperations(ApplyOperation(target, Head(ops)), Tail(ops))

\* The patch of a response applied to the annotations; a patch that fails leaves
\* the object as it was.
Patched(annotations, payload) ==
  LET parsed == ArrayElements(payload)
      result == ApplyOperations([ok |-> parsed.ok, annotations |-> annotations], parsed.elems)
  IN IF result.ok THEN result.annotations ELSE annotations

\* The response envelope the handler wrote with status 200, if any.
Written(h) ==
  IF w[h].status = StatusOK /\ Len(w[h].body) = 1 /\ w[h].body[1].json # None
  THEN w[h].body[1].json
  ELSE None

\* The API server submits the stored object to the mutate route.
Resubmit(h) ==
  /\ \A g \in Handlers : pc[g] = "idle"
  /\ applied < MaxApplied
  /\ \E uid \in UIDs, v \in APIVersions :
       Arrive(h, [ route |-> "mutate",
                   contentType |-> "application/json",
                   body |-> [ bytes |-> "json",
                              holds |-> [ APIVersion |-> v, Kind |-> "AdmissionReview",
                                          Response |-> None,
                                          Request |-> Some([ UID |-> uid,
                                                             Resource |-> ruleResource,
                                                             Object |-> [json |-> TRUE,
                                                                         annotations |-> object] ]) ] ] ])

\* The API server applies the patch of an allowed response to the stored object.
ApplyPatch(h) ==
  /\ pc[h] = "done"
  /\ Written(h) # None
  /\ Written(h)[1].response # None
  /\ Written(h)[1].response[1].allowed
  /\ Written(h)[1].response[1].patch # None
  /\ object' = Patched(object, Written(h)[1].response[1].patch)
  /\ applied' = applied + 1
  /\ Reset(h)
  /\ UNCHANGED << counters, call >>

InitIdem ==
  /\ registered = FALSE
  /\ validationTriggeredCounter = 0
  /\ validationErrorsCounter = 0
  /\ pc = [h \in Handlers |-> "idle"]
  /\ r = [h \in Handlers |-> NoRequest]
  /\ w = [h \in Handlers |-> NewWriter]
  /\ requestedAdmissionReview = [h \in Handlers |-> ZeroReview]
  /\ responseAdmissionReview = [h \in Handlers |-> ZeroReview]
  /\ respBytes = [h \in Handlers |-> None]
  /\ rule = [h \in Handlers |-> NoAnnotations]
  /\ errors = [h \in Handlers |-> << >>]
  /\ patches = [h \in Handlers |-> << >>]
  /\ steps = [h \in Handlers |-> << >>]
  /\ fault = [h \in Handlers |-> "none"]
  /\ object \in AnnotationMaps
  /\ applied = 0
  /\ call = NoCall

MutateStep(h) ==
  \/ serveAdmissionBody(h)
  \/ serveAdmissionContentType(h)
  \/ serveAdmissionDecode(h)
  \/ mutatePrometheusRulesKind(h)
  \/ mutatePrometheusRulesUnmarshal(h)
  \/ mutatePrometheusRulesPatches(h)
  \/ mutatePrometheusRulesAnnotate(h)
  \/ serveAdmissionCorrelate(h)
  \/ serveAdmissionMarshal(h)
  \/ serveAdmissionWrite(h)

NextIdem ==
  \/ \E h \in Handlers : Resubmit(h)
  \/ \E h \in Handlers : MutateStep(h)
  \/ \E h \in Handlers : ApplyPatch(h)
  \/ \E h \in Handlers : Discard(h)

\* The mutate route in a loop: any stored object, submitted, patched, submitted again.
SpecIdem == InitIdem /\ [][NextIdem]_vars

(* ------------------------------------------ the builder called directly *)

\* The messages the source passes to toAdmissionResponseFailure.
BuilderMessages ==
  { "Unable to deserialize request", "Unexpected resource kind", errUnmarshalAdmission,
    errUnmarshalRules, "Rules are not valid" }
BuilderErrors == RuleErrors \cup { errDecode }

\* Any message and any error sequence, the empty one included, as arguments.
InitBuilder ==
  /\ registered = FALSE
  /\ validationTriggeredCounter = 0
  /\ validationErrorsCounter = 0
  /\ pc = [h \in Handlers |-> "idle"]
  /\ r = [h \in Handlers |-> NoRequest]
  /\ w = [h \in Handlers |-> NewWriter]
  /\ requestedAdmissionReview = [h \in Handlers |-> ZeroReview]
  /\ responseAdmissionReview = [h \in Handlers |-> ZeroReview]
  /\ respBytes = [h \in Handlers |-> None]
  /\ rule = [h \in Handlers |-> NoAnnotations]
  /\ errors = [h \in Handlers |-> << >>]
  /\ patches = [h \in Handlers |-> << >>]
  /\ steps = [h \in Handlers |-> << >>]
  /\ fault = [h \in Handlers |-> "none"]
  /\ object = NoAnnotations
  /\ applied = 0
  /\ call \in [message : BuilderMessages,
               errs : SeqsUpTo(BuilderErrors, MaxErrors),
               result : { None }]

\* toAdmissionResponseFailure(message, errors) is called and returns.
BuildFailure ==
  /\ call.result = None
  /\ call' = [call EXCEPT !.result = Some(toAdmissionResponseFailure(call.message, call.errs))]
  /\ UNCHANGED << counters, pc, r, w, locals, steps, fault, object, applied >>

NextBuilder == BuildFailure

SpecBuilder == InitBuilder /\ [][NextBuilder]_vars

(* ------------------------------------------- requests served concurrently *)

\* A request of the concurrent runs: a well-formed envelope on either route.
ConcurrentRequest(route, request) ==
  [ route |-> route, contentType |-> "application/json",
    body |-> [ bytes |-> "json",
               holds |-> [ APIVersion |-> "admission.k8s.io/v1", Kind |-> "AdmissionReview",
                           Response |-> None, Request |-> request ] ] ]

\* The admission request of such an envelope.
ConcurrentAdmission(resource, json) ==
  Some([UID |-> "uid-1", Resource |-> resource,
        Object |-> [json |-> json, annotations |-> NoAnnotations]])

\* The requests of the concurrent runs: a validate request with no admission
\* request in it, or one for another resource, or one for the expected resource
\* whose object is or is not JSON; a mutate request for another resource or for
\* the expected one.
ConcurrentRequests ==
  { ConcurrentRequest("validate", None),
    ConcurrentRequest("validate",
                      ConcurrentAdmission([ruleResource EXCEPT !.Version = "v1beta1"], TRUE)),
    ConcurrentRequest("validate", ConcurrentAdmission(ruleResource, FALSE)),
    ConcurrentRequest("validate", ConcurrentAdmission(ruleResource, TRUE)),
    ConcurrentRequest("mutate",
                      ConcurrentAdmission([ruleResource EXCEPT !.Version = "v1beta1"], TRUE)),
    ConcurrentRequest("mutate", ConcurrentAdmission(ruleResource, TRUE)) }

\* What the environment does to one handler in the concurrent runs: the rule
\* validator reports no error or one, the patch helper returns no fragment, and
\* serialising and writing the response succeed.
Undisturbed(h) ==
  /\ Len(errors[h]) <= 1
  /\ patches[h] = << >>
  /\ \A i \in DOMAIN w[h].body : w[h].body[i].text = ""

\* An order on those requests: validate before mutate, then by what the
\* admission request holds.
Place(req) ==
  LET request == req.body.holds.Request
  IN (IF req.route = "validate" THEN 0 ELSE 4) +
     (IF request = None THEN 0
      ELSE IF request[1].Resource # ruleResource THEN 1
      ELSE IF request[1].Object.json THEN 2 ELSE 3)

\* A request arrives while others are being served, at any moment. The server's
\* goroutines are interchangeable: which of them gets which request is fixed by
\* the order of the requests, so that no two runs differ by the goroutines' names only.
ReceiveConcurrent(h) ==
  \E req \in ConcurrentRequests :
    /\ \A g \in Handlers :
         pc[g] # "idle" => /\ g < h => Place(r[g]) <= Place(req)
                           /\ g > h => Place(req) <= Place(r[g])
    /\ Arrive(h, req)

\* One step of one of the handlers, the others standing where they are.
ServeConcurrent(h) == Step(h) /\ Undisturbed(h)'

NextConcurrent ==
  \/ RegisterMetrics
  \/ \E h \in Handlers : ReceiveConcurrent(h)
  \/ \E h \in Handlers : ServeConcurrent(h)

\* One request per handler slot, served in any interleaving.
SpecConcurrent == Init /\ [][NextConcurrent]_vars

(* ---------------------------------------------------------------- claims *)

Range(seq) == { seq[i] : i \in DOMAIN seq }
Finished(h) == pc[h] \in { "done", "panicked" }
PassedTransport(h) == r[h].body.bytes # "" /\ r[h].contentType = "application/json"
DecodeFailed(h) == Decode(r[h].body).err # None
Wrote(h, text) == \E i \in DOMAIN w[h].body : w[h].body[i].text = text
MarshalFailed(h) == Wrote(h, "could not serialize response: " \o errMarshal)
WriteFailed(h) == Wrote(h, "could not write response: " \o errWrite)
\* The AdmissionResponse the handler holds, as an optional.
Response(h) == responseAdmissionReview[h].Response
\* The UID of an envelope's request, empty when the envelope has none.
RequestUID(review) == IF review.Request = None THEN "" ELSE review.Request[1].UID
\* The path member of the patch operations the model knows.
PatchPath(op) ==
  IF op = addFirstAnnotationPatch THEN "/metadata/annotations"
  ELSE IF op = addAdditionalAnnotationPatch THEN "/metadata/annotations/prometheus-operator-validated"
  ELSE "/spec"
IsAnnotationOperation(op) == op \in { addFirstAnnotationPatch, addAdditionalAnnotationPatch }

\* C1: every request that passed the body and content-type checks ends with a
\* response envelope whose UID, APIVersion and Kind are those of the request
\* envelope, on every path, decode failure included. (A handler stopped by an unset
\* counter is left aside: the formula fails without it.)
C1_EnvelopeEchoed ==
  \A h \in Handlers :
    (Finished(h) /\ PassedTransport(h) /\ fault[h] # "nil counter") =>
      /\ pc[h] = "done"
      /\ Response(h) # None
      /\ Response(h)[1].UID = RequestUID(Decode(r[h].body).into)
      /\ responseAdmissionReview[h].APIVersion = Decode(r[h].body).into.APIVersion
      /\ responseAdmissionReview[h].Kind = Decode(r[h].body).into.Kind

\* C2: when decoding the envelope fails, the admission function is not invoked and
\* the handler completes with HTTP 200 and an envelope carrying allowed=false and
\* a failure result (serialization and write failures aside).
C2_DecodeFailureAnswered ==
  \A h \in Handlers :
    (Finished(h) /\ PassedTransport(h) /\ DecodeFailed(h)
       /\ ~MarshalFailed(h) /\ ~WriteFailed(h)) =>
      /\ steps[h] = << >>
      /\ pc[h] = "done"
      /\ w[h].status = StatusOK
      /\ Written(h) # None
      /\ Written(h)[1].response # None
      /\ ~Written(h)[1].response[1].allowed
      /\ Written(h)[1].response[1].status # None

\* C3: the admission function is never entered with an envelope whose request
\* payload is nil.
C3_AdmitNeverSeesNilRequest ==
  \A h \in Handlers :
    pc[h] \in { "validate", "mutate" } => Request(h) # None

\* C4: for a request whose resource triple is not the expected one, validate and
\* mutate return allowed=false with exactly one cause, which describes the
\* mismatch, and no patch, whatever the object payload; the payload is never
\* unmarshalled.
C4_KindMismatchRejected ==
  \A h \in Handlers :
    (Request(h) # None /\ Request(h)[1].Resource # ruleResource) =>
      /\ Range(steps[h]) \subseteq { "triggered", "kind" }
      /\ "kind" \in Range(steps[h]) =>
           /\ Response(h) # None
           /\ ~Response(h)[1].Allowed
           /\ Response(h)[1].Patch = None
           /\ Response(h)[1].PatchType = None
           /\ Response(h)[1].Result # None
           /\ Response(h)[1].Result[1].Message = "Unexpected resource kind"
           /\ Len(Response(h)[1].Result[1].Details.Causes) = 1
           /\ Response(h)[1].Result[1].Details.Causes[1].Message =
                errResourceKind(Request(h)[1].Resource)

\* C4 witness: a validate request for another resource, with an object that would
\* unmarshal, answered.
C4_Witness ==
  \E h \in Handlers :
    /\ pc[h] = "done" /\ r[h].route = "validate"
    /\ Request(h) # None
    /\ Request(h)[1].Resource.Version # ruleResource.Version
    /\ Request(h)[1].Object.json
    /\ steps[h] = << "triggered", "kind" >>
    /\ Written(h) # None

\* C5: every AdmissionResponse, in the handler or written to the client, with
\* allowed=false carries a failure result with a message and at least one cause,
\* and one with a patch has allowed=true.
C5_ResponseInvariant ==
  \A h \in Handlers :
    /\ Response(h) # None =>
         /\ ~Response(h)[1].Allowed =>
              /\ Response(h)[1].Result # None
              /\ Response(h)[1].Result[1].Message # ""
              /\ Len(Response(h)[1].Result[1].Details.Causes) >= 1
         /\ Response(h)[1].Patch # None => Response(h)[1].Allowed
    /\ (Written(h) # None /\ Written(h)[1].response # None) =>
         /\ ~Written(h)[1].response[1].allowed =>
              /\ Written(h)[1].response[1].status # None
              /\ Written(h)[1].response[1].status[1].Message # ""
              /\ Len(Written(h)[1].response[1].status[1].Details.Causes) >= 1
         /\ Written(h)[1].response[1].patch # None => Written(h)[1].response[1].allowed

\* C5 witness: a mutate request whose object does not unmarshal, answered with a
\* written rejection.
C5_Witness ==
  \E h \in Handlers :
    /\ pc[h] = "done" /\ r[h].route = "mutate"
    /\ steps[h] = << "kind", "unmarshal" >>
    /\ Written(h) # None
    /\ ~Written(h)[1].response[1].allowed
    /\ Written(h)[1].response[1].status[1].Message = errUnmarshalAdmission

\* C6: when the validator returns N >= 1 errors, the response is allowed=false with
\* message "Rules are not valid" and exactly N causes, the i-th carrying the i-th
\* error's message.
C6_CausesFollowErrors ==
  \A h \in Handlers :
    Len(errors[h]) # 0 =>
      /\ r[h].route = "validate"
      /\ steps[h] = << "triggered", "kind", "unmarshal", "ValidateRule" >>
      /\ Response(h) # None
      /\ ~Response(h)[1].Allowed
      /\ Response(h)[1].Result # None
      /\ Response(h)[1].Result[1].Message = "Rules are not valid"
      /\ Len(Response(h)[1].Result[1].Details.Causes) = Len(errors[h])
      /\ \A i \in 1..Len(errors[h]) :
           Response(h)[1].Result[1].Details.Causes[i].Message = errors[h][i]

\* C6 witness: two different validator errors, answered.
C6_Witness ==
  \E h \in Handlers :
    /\ pc[h] = "done"
    /\ Len(errors[h]) = 2
    /\ errors[h][1] # errors[h][2]
    /\ Written(h) # None
    /\ Len(Written(h)[1].response[1].status[1].Details.Causes) = 2

\* C7: when the validator returns no error, validate returns allowed=true with no
\* patch, no patch type and no Result.
C7_ValidAllowed ==
  \A h \in Handlers :
    ("ValidateRule" \in Range(steps[h]) /\ Len(errors[h]) = 0) =>
      /\ Response(h) # None
      /\ Response(h)[1].Allowed
      /\ Response(h)[1].Patch = None
      /\ Response(h)[1].PatchType = None
      /\ Response(h)[1].Result = None

\* C7 witness: a validate request with no validator error, answered 200.
C7_Witness ==
  \E h \in Handlers :
    /\ pc[h] = "done" /\ r[h].route = "validate"
    /\ "ValidateRule" \in Range(steps[h]) /\ errors[h] = << >>
    /\ Written(h) # None
    /\ Written(h)[1].response[1].allowed

\* C8: a successful mutate call returns allowed=true with patch type JSONPatch and
\* a payload that is one JSON array: the helper's fragments in their order, then
\* exactly one annotation operation, last, whose path is /metadata/annotations
\* when the object's annotation map is empty or absent and
\* /metadata/annotations/prometheus-operator-validated otherwise.
C8_PatchWellFormed ==
  \A h \in Handlers :
    "annotate" \in Range(steps[h]) =>
      /\ Response(h) # None
      /\ Response(h)[1].Allowed
      /\ Response(h)[1].PatchType = Some("JSONPatch")
      /\ LET parsed == ArrayElements(Response(h)[1].Patch)
             n == Len(parsed.elems)
         IN /\ parsed.ok
            /\ n = Len(patches[h]) + 1
            /\ SubSeq(parsed.elems, 1, n - 1) = patches[h]
            /\ Cardinality({ i \in 1..n : IsAnnotationOperation(parsed.elems[i]) }) = 1
            /\ PatchPath(parsed.elems[n]) =
                 IF Request(h)[1].Object.annotations.keys = {}
                 THEN "/metadata/annotations"
                 ELSE "/metadata/annotations/prometheus-operator-validated"

\* C8 witness: a mutate request on an object with an empty annotation map and two
\* helper fragments, answered with the patch.
C8_Witness ==
  \E h \in Handlers :
    /\ pc[h] = "done"
    /\ "annotate" \in Range(steps[h])
    /\ Len(patches[h]) = 2 /\ patches[h][1] # patches[h][2]
    /\ Request(h)[1].Object.annotations = [present |-> TRUE, keys |-> {}]
    /\ Written(h) # None
    /\ Len(Written(h)[1].response[1].patch) = 7

\* C9: once a mutate patch has been applied to the stored object, every later
\* mutate call on it takes the additional-annotation branch, and applying its
\* patch leaves the annotations as they were after the first application.
C9_MutateIdempotent ==
  /\ [](\A h \in Handlers :
          (applied >= 1 /\ "annotate" \in Range(steps[h])) =>
            /\ Response(h) # None
            /\ LET parsed == ArrayElements(Response(h)[1].Patch)
               IN /\ parsed.ok
                  /\ parsed.elems[Len(parsed.elems)] = addAdditionalAnnotationPatch
                  /\ \A i \in DOMAIN parsed.elems :
                       parsed.elems[i] # addFirstAnnotationPatch)
  /\ [][applied >= 1 => object' = object]_vars

\* C9 witness: a second patch was applied to an object that had no annotations.
C9_Witness ==
  /\ applied = 2
  /\ object = [present |-> TRUE, keys |-> { ValidatedKey }]

\* C10: 400 for an empty body whatever the content type, else 415 for a content
\* type other than application/json, else 200 with the decision in the body
\* unless serialization or writing failed. (A handler stopped by an unset counter
\* is left aside: the formula fails without it.)
C10_HttpStatus ==
  \A h \in Handlers :
    (Finished(h) /\ fault[h] # "nil counter") =>
      IF r[h].body.bytes = "" THEN w[h].status = StatusBadRequest
      ELSE IF r[h].contentType # "application/json"
           THEN w[h].status = StatusUnsupportedMediaType
      ELSE IF MarshalFailed(h) THEN w[h].status = StatusInternalServerError
      ELSE IF WriteFailed(h) THEN w[h].status \in { StatusOK, StatusInternalServerError }
      ELSE /\ w[h].status = StatusOK
           /\ Written(h) # None
           /\ Written(h)[1].response # None
           /\ (DecodeFailed(h) \/ errors[h] # << >>) => ~Written(h)[1].response[1].allowed


ValidateLabels == { "validate", "v_kind", "v_unmarshal", "v_rules" }
MutateLabels == { "mutate", "m_unmarshal", "m_patches", "m_annotate" }
\* The statements of validatePrometheusRules in the order of the source.
LinearSteps == << "triggered", "kind", "unmarshal", "ValidateRule" >>
IsPrefix(s, t) == Len(s) <= Len(t) /\ SubSeq(t, 1, Len(s)) = s
Occurrences(seq, x) == Cardinality({ i \in DOMAIN seq : seq[i] = x })
\* Handler h takes a step of the program (its position changes).
Moves(h) == pc'[h] # pc[h]
CountersSame ==
  /\ validationTriggeredCounter' = validationTriggeredCounter
  /\ validationErrorsCounter' = validationErrorsCounter

\* C11: an invocation of validatePrometheusRules (on an Admission whose counters are
\* set) increments the triggered counter exactly once, as its first statement, and
\* the errors counter exactly once in the step that returns a failure and never
\* in a step that returns allowed=true or returns nothing.
C11_CountersPerInvocation ==
  /\ [](\A h \in Handlers :
          (r[h].route = "validate" /\ steps[h] # << >>) =>
            /\ steps[h][1] = "triggered"
            /\ Occurrences(steps[h], "triggered") = 1)
  /\ [][\A h \in Handlers :
          (pc[h] \in ValidateLabels /\ Moves(h)) =>
            /\ validationTriggeredCounter' =
                 validationTriggeredCounter + (IF pc[h] = "validate" /\ registered THEN 1 ELSE 0)
            /\ validationErrorsCounter' =
                 validationErrorsCounter +
                   (IF Response(h)' # None /\ ~Response(h)'[1].Allowed THEN 1 ELSE 0)]_vars

\* C11 witness: a validate request whose object did not unmarshal, answered, with
\* both counters at one.
C11_Witness ==
  \E h \in Handlers :
    /\ pc[h] = "done" /\ r[h].route = "validate"
    /\ steps[h] = << "triggered", "kind", "unmarshal" >>
    /\ validationTriggeredCounter = 1
    /\ validationErrorsCounter = 1

\* C13: a validate request served while the counters are unset does not fault: it
\* still comes to its response.
C13_NoFaultWithoutMetrics ==
  \A h \in Handlers :
    (r[h].route = "validate" /\ Finished(h) /\ PassedTransport(h) /\ ~DecodeFailed(h)
       /\ Decode(r[h].body).into.Request # None) =>
      /\ fault[h] # "nil counter"
      /\ pc[h] = "done"

\* C14: no statement of a mutate request changes a counter, on any path; a counter
\* changes only in a statement of validatePrometheusRules.
C14_MutateLeavesCounters ==
  [][/\ \A h \in Handlers :
          (pc[h] # "idle" /\ r[h].route = "mutate" /\ Moves(h)) => CountersSame
     /\ ~CountersSame =>
          \E h \in Handlers :
            r[h].route = "validate" /\ pc[h] \in ValidateLabels /\ Moves(h)]_vars

\* C14 witness: after a validate request raised both counters, a mutate request
\* for another resource was rejected and answered.
C14_Witness ==
  \E h \in Handlers :
    /\ pc[h] = "done" /\ r[h].route = "mutate"
    /\ steps[h] = << "kind" >>
    /\ Written(h) # None
    /\ validationTriggeredCounter = 1
    /\ validationErrorsCounter = 1

\* C15: when json.Marshal fails the status is 500, the body starts with the
\* serialization error, reported once, and no envelope bytes are written.
C15_SerializeFailure ==
  \A h \in Handlers :
    MarshalFailed(h) =>
      /\ w[h].status = StatusInternalServerError
      /\ w[h].body[1].text = "could not serialize response: " \o errMarshal
      /\ Cardinality({ i \in DOMAIN w[h].body :
                         w[h].body[i].text = "could not serialize response: " \o errMarshal }) = 1
      /\ \A i \in DOMAIN w[h].body : w[h].body[i].json = None
      /\ respBytes[h] = None

\* C15 witness: a handler that failed to serialize, finished with the one error
\* text written.
C15_Witness ==
  \E h \in Handlers :
    /\ pc[h] = "done"
    /\ MarshalFailed(h)
    /\ Len(w[h].body) = 1

\* C17: validatePrometheusRules runs its statements in the order of the source:
\* the object is unmarshalled only after the kind check passed, the validator runs
\* only after the unmarshal succeeded, and once a response is chosen no statement
\* of the function runs again and the decision stays.
C17_LinearValidate ==
  /\ [](\A h \in Handlers :
          (r[h].route = "validate" /\ pc[h] # "idle") =>
            /\ IsPrefix(steps[h], LinearSteps)
            /\ "unmarshal" \in Range(steps[h]) =>
                 Request(h) # None /\ Request(h)[1].Resource = ruleResource
            /\ "ValidateRule" \in Range(steps[h]) => Request(h)[1].Object.json
            /\ (Response(h) # None /\ ~DecodeFailed(h) /\ ~Response(h)[1].Allowed) =>
                 LET m == Response(h)[1].Result[1].Message
                 IN /\ m = "Unexpected resource kind" => steps[h] = SubSeq(LinearSteps, 1, 2)
                    /\ m = errUnmarshalRules => steps[h] = SubSeq(LinearSteps, 1, 3)
                    /\ m = "Rules are not valid" => steps[h] = LinearSteps
                    /\ m \in { "Unexpected resource kind", errUnmarshalRules, "Rules are not valid" })
  /\ [][\A h \in Handlers :
          (r[h].route = "validate" /\ Response(h) # None /\ pc'[h] # "idle") =>
            /\ steps'[h] = steps[h]
            /\ pc'[h] \notin ValidateLabels
            /\ Response(h)' # None
            /\ Response(h)'[1].Allowed = Response(h)[1].Allowed
            /\ Response(h)'[1].Result = Response(h)[1].Result]_vars

\* C17 witness: a validate request that went through every statement and was
\* rejected by the validator, answered.
C17_Witness ==
  \E h \in Handlers :
    /\ pc[h] = "done" /\ r[h].route = "validate"
    /\ steps[h] = LinearSteps
    /\ Len(errors[h]) = 1
    /\ Written(h) # None

\* C19: a request rejected at the transport layer (empty body, or a content type
\* other than application/json) never reaches the decode or the admission
\* function: the counters stay, no envelope is built or written, and the answer
\* is the 400 or 415 error text alone, on both routes.
C19_TransportRejection ==
  /\ [](\A h \in Handlers :
          (pc[h] # "idle" /\ ~PassedTransport(h)) =>
            /\ pc[h] \in { "body", "contentType", "done" }
            /\ steps[h] = << >>
            /\ requestedAdmissionReview[h] = ZeroReview
            /\ Response(h) = None
            /\ respBytes[h] = None
            /\ \A i \in DOMAIN w[h].body : w[h].body[i].json = None
            /\ pc[h] = "done" =>
                 /\ w[h].status =
                      IF r[h].body.bytes = "" THEN StatusBadRequest
                      ELSE StatusUnsupportedMediaType
                 /\ Len(w[h].body) = 1)
  /\ [][\A h \in Handlers :
          (pc[h] # "idle" /\ ~PassedTransport(h) /\ Moves(h)) => CountersSame]_vars

\* C19 witness: a mutate request with a parameterised JSON content type, answered
\* 415 after a validate request had raised the triggered counter.
C19_Witness ==
  \E h \in Handlers :
    /\ pc[h] = "done" /\ r[h].route = "mutate"
    /\ r[h].contentType = "application/json; charset=utf-8"
    /\ r[h].body.bytes = "json"
    /\ w[h].status = StatusUnsupportedMediaType
    /\ validationTriggeredCounter = 1

\* Handler h is serving a validate request and has entered validatePrometheusRules
\* with the counters set: it is past line 187.
Entered(h) ==
  /\ r[h].route = "validate"
  /\ pc[h] \notin { "idle", "body", "contentType", "decode", "validate" }
  /\ PassedTransport(h) /\ ~DecodeFailed(h)
  /\ fault[h] # "nil counter"
\* Its invocation chose a failure response.
EndedInFailure(h) == Entered(h) /\ Response(h) # None /\ ~Response(h)[1].Allowed
\* Everything handler h owns.
Owned(h) ==
  << pc[h], r[h], w[h], requestedAdmissionReview[h], responseAdmissionReview[h],
     respBytes[h], rule[h], errors[h], patches[h], steps[h], fault[h] >>

\* C12: with validate requests served concurrently in any interleaving, the
\* triggered counter is the number of invocations that have run line 187 and the
\* errors counter the number that ended in failure, so that once K invocations
\* are over, E of them in failure, the counters stand at K and E; the counters
\* never go down; and a step of one handler changes nothing another handler
\* owns, the counters being the only state the requests share.
C12_NoLostIncrement ==
  /\ [](/\ validationTriggeredCounter = Cardinality({ h \in Handlers : Entered(h) })
        /\ validationErrorsCounter = Cardinality({ h \in Handlers : EndedInFailure(h) }))
  /\ [][/\ validationTriggeredCounter' >= validationTriggeredCounter
        /\ validationErrorsCounter' >= validationErrorsCounter
        /\ \A h, g \in Handlers : (Moves(h) /\ g # h) => Owned(g)' = Owned(g)
        /\ UNCHANGED stored]_vars

\* C12 witness: two validate requests in flight at once, one already rejected by
\* the validator and the other still before its kind check, both counted.
C12_Witness ==
  \E h, g \in Handlers :
    /\ h # g
    /\ EndedInFailure(h) /\ steps[h] = LinearSteps
    /\ Entered(g) /\ pc[g] = "v_kind"
    /\ validationTriggeredCounter = 2
    /\ validationErrorsCounter = 1

\* C16: for any message and any sequence of errors, the empty one included,
\* toAdmissionResponseFailure returns allowed=false with a result of reason
\* Invalid, code 422 and the given message, whose causes are one per error in
\* the order given, and a list (not nil) when there is no error.
C16_FailureResponseShape ==
  call.result # None =>
    LET response == call.result[1]
    IN /\ ~response.Allowed
       /\ response.Result # None
       /\ response.Result[1].Reason = "Invalid"
       /\ response.Result[1].Code = 422
       /\ response.Result[1].Message = call.message
       /\ ~response.Result[1].Details.CausesNil
       /\ Len(response.Result[1].Details.Causes) = Len(call.errs)
       /\ \A i \in DOMAIN call.errs :
            response.Result[1].Details.Causes[i].Message = call.errs[i]

\* C16 witness: the builder has returned for a message without errors.
C16_Witness ==
  /\ call.result # None
  /\ call.message = "Unexpected resource kind"
  /\ call.errs = << >>
  /\ call.result[1].Result[1].Details.Causes = << >>

\* C18: in every state of every interleaving of validate and mutate requests the
\* errors counter is at most the triggered counter, and a request raises the
\* errors counter at most once: by one, in the step in which it chooses its
\* response, so that the counter never exceeds the number of validate requests
\* that have chosen one.
C18_ErrorsAtMostTriggered ==
  /\ [](/\ validationErrorsCounter <= validationTriggeredCounter
        /\ validationErrorsCounter <=
             Cardinality({ h \in Handlers : r[h].route = "validate" /\ Response(h) # None }))
  /\ [][/\ validationErrorsCounter' <= validationErrorsCounter + 1
        /\ validationErrorsCounter' # validationErrorsCounter =>
             \E h \in Handlers :
               /\ r[h].route = "validate" /\ Moves(h)
               /\ Response(h) = None /\ Response(h)' # None]_vars

\* C18 witness: a validate request rejected for its kind and a mutate request
\* rejected for its kind, both answered, the counters at one each.
C18_Witness ==
  \E h, g \in Handlers :
    /\ r[h].route = "validate" /\ pc[h] = "done" /\ steps[h] = SubSeq(LinearSteps, 1, 2)
    /\ r[g].route = "mutate" /\ pc[g] = "done" /\ steps[g] = << "kind" >>
    /\ validationTriggeredCounter = 1
    /\ validationErrorsCounter = 1

====
